---- MODULE Spec2Model ----
(***************************************************************************)
(* Model of salesforce/fields.py: the identifier field                     *)
(* (SalesforceAutoField), the SfField mix-in with its column naming, and   *)
(* the ForeignKey relation field.                                          *)
(*                                                                         *)
(* A Python string is a sequence of one-character strings, so that         *)
(* str.islower, str.title, str.replace and '+' are computed character by   *)
(* character.  An optional value (a keyword argument that may be missing,  *)
(* an attribute that may be None) is a tuple of length 0 or 1.             *)
(***************************************************************************)
EXTENDS Integers, Sequences, FiniteSets, TLC

\* longest declared field name that is enumerated
MaxLen == 3
\* most identifier fields constructed from one declaration (one per model class)
MaxFields == 2

-----------------------------------------------------------------------------
(* Python values *)

None == <<>>
Some(v) == <<v>>
IsNone(o) == Len(o) = 0
Value(o) == o[1]

\* dict.get(key, default) / dict.pop(key, default) on a keyword dictionary
Get(kwargs, key, default) == IF IsNone(kwargs[key]) THEN default ELSE Value(kwargs[key])
Pop(kwargs, key) == [kwargs EXCEPT ![key] = None]

\* reprs of the Python scalars passed for primary_key, null, blank, default
PyTrue == "True"
PyFalse == "False"
PyOne == "1"
PyNone == "None"
PyX == "'x'"

-----------------------------------------------------------------------------
(* str methods used by the naming code *)

LowerSeq == <<"a", "c", "d", "i">>
UpperSeq == <<"A", "C", "D", "I">>
IsLowerChar(c) == \E i \in 1..Len(LowerSeq) : LowerSeq[i] = c
IsUpperChar(c) == \E i \in 1..Len(UpperSeq) : UpperSeq[i] = c
IsCased(c) == IsLowerChar(c) \/ IsUpperChar(c)
ToUpper(c) == IF IsLowerChar(c) THEN UpperSeq[CHOOSE i \in 1..Len(LowerSeq) : LowerSeq[i] = c] ELSE c
ToLower(c) == IF IsUpperChar(c) THEN LowerSeq[CHOOSE i \in 1..Len(UpperSeq) : UpperSeq[i] = c] ELSE c

\* str.islower(): at least one cased character and no upper-case character
islower(s) == /\ \E i \in 1..Len(s) : IsLowerChar(s[i])
              /\ \A i \in 1..Len(s) : ~IsUpperChar(s[i])

\* str.capitalize() in place of str.title(): only the first character upper-cased
title_capitalize(s) == [i \in 1..Len(s) |-> IF i > 1 THEN ToLower(s[i]) ELSE ToUpper(s[i])]

\* str.title(): a cased character is upper-cased when the character before it is
\* not cased (or it is the first), and lower-cased otherwise
title(s) == [i \in 1..Len(s) |-> IF i > 1 /\ IsCased(s[i-1]) THEN ToLower(s[i]) ELSE ToUpper(s[i])]

NotUnderscore(c) == c # "_"
\* str.replace('_', '')
replace_underscore(s) == SelectSeq(s, NotUnderscore)

SUFFIX_C == <<"_", "_", "c">>
SUFFIX_Id == <<"I", "d">>
SUFFIX_id == <<"_", "i", "d">>

-----------------------------------------------------------------------------
(* module constants *)

FULL_WRITABLE == 0
NOT_UPDATEABLE == 1
NOT_CREATEABLE == 2
READ_ONLY == 3

-----------------------------------------------------------------------------
(* inputs: the declarations a model module can contain *)

NameChars == {"a", "A", "_", "1"}
Strings(n) == UNION {[1..k -> NameChars] : k \in 0..n}
\* a declared name is a Python identifier: not empty, no leading digit
Names == {s \in Strings(MaxLen) : Len(s) > 0 /\ s[1] # "1"}
DbColumns == {None, Some(<<"a", "_", "A">>)}
Opt(S) == {None} \cup {Some(v) : v \in S}

ScalarClasses == {"CharField", "BooleanField"}
OnDeleteNames == {"CASCADE", "PROTECT", "DO_NOTHING"}
AutoNames == {<<"a">>}

NoKwargs == [name |-> None, db_column |-> None, custom |-> None, sf_read_only |-> None,
             on_delete |-> None, to |-> None, primary_key |-> None, null |-> None,
             blank |-> None, default |-> None]

SfKwargs == {[NoKwargs EXCEPT !.name = Some(n), !.db_column = d, !.custom = c, !.sf_read_only = r] :
                n \in Names, d \in DbColumns, c \in Opt(BOOLEAN),
                r \in Opt({FULL_WRITABLE, NOT_UPDATEABLE, NOT_CREATEABLE, READ_ONLY})}

ScalarDecls == {[cls |-> k, args |-> <<>>, kwargs |-> kw] : k \in ScalarClasses, kw \in SfKwargs}

\* the related model is passed positionally (args[0]) or as the keyword 'to'
ForeignKeyDecls ==
    {[cls |-> "ForeignKey", args |-> a, kwargs |-> [kw EXCEPT !.on_delete = o, !.to = t]] :
        kw \in SfKwargs, o \in Opt(OnDeleteNames),
        a \in {<<"User">>}, t \in {None}}
    \cup
    {[cls |-> "ForeignKey", args |-> a, kwargs |-> [kw EXCEPT !.on_delete = o, !.to = t]] :
        kw \in SfKwargs, o \in Opt(OnDeleteNames),
        a \in {<<>>}, t \in {Some("User")}}

AutoDecls == {[cls |-> "SalesforceAutoField", args |-> <<>>,
               kwargs |-> [NoKwargs EXCEPT !.name = Some(n), !.primary_key = p, !.null = u,
                                           !.blank = b, !.default = d]] :
                n \in AutoNames, p \in Opt({PyTrue, PyFalse, PyOne}),
                u \in Opt({PyTrue, PyFalse}), b \in Opt({PyTrue, PyFalse}),
                d \in Opt({PyNone, PyX})}

Decls == ScalarDecls \cup ForeignKeyDecls \cup AutoDecls
Models == {"Account", "Contact"}

-----------------------------------------------------------------------------
(* state *)

VARIABLES
    decl,       \* the field declaration being executed: class, *args, **kwargs
    fields,     \* the field objects constructed so far, in order of construction
    meta,       \* cls._meta of every model class
    warnings,   \* what warnings.warn was called with, in order
    last        \* the last call made and how it ended

vars == <<decl, fields, meta, warnings, last>>

Call(op, outcome, i, m) == [op |-> op, outcome |-> outcome, field |-> i, model |-> m]
OK == "ok"
AssertionError == "AssertionError"
IndexError == "IndexError"

-----------------------------------------------------------------------------
(* django.db.models.Field.__init__ and ForeignKey.__init__ as far as the   *)
(* attributes read in this module go: they store their arguments           *)

Field__init__(cls, args, kwargs) ==
    [cls |-> cls,
     name |-> Get(kwargs, "name", <<>>),
     db_column |-> kwargs.db_column,
     primary_key |-> Get(kwargs, "primary_key", PyFalse),
     null |-> Get(kwargs, "null", PyFalse),
     blank |-> Get(kwargs, "blank", PyFalse),
     default |-> Get(kwargs, "default", "NOT_PROVIDED"),
     to |-> IF Len(args) > 0 THEN Some(args[1]) ELSE kwargs.to,
     on_delete |-> Get(kwargs, "on_delete", "CASCADE"),
     sf_read_only |-> None,
     sf_custom |-> None,
     attname |-> None,
     column |-> None]

-----------------------------------------------------------------------------
(* SalesforceAutoField *)

\* the assertion testing truth instead of identity with True
primary_key_truthy(kwargs) == Get(kwargs, "primary_key", PyFalse) \in {PyTrue, PyOne}

\* the assertion of SalesforceAutoField.__init__
primary_key_given(kwargs) == Get(kwargs, "primary_key", PyFalse) = PyTrue

\* the keyword arguments SalesforceAutoField.__init__ hands to Field.__init__
AutoFieldKwargs(kwargs) ==
    [kwargs EXCEPT !.blank = Some(PyFalse), !.null = Some(PyFalse), !.default = Some(PyNone)]

SalesforceAutoField__init__ ==
    /\ decl.cls = "SalesforceAutoField"
    /\ Len(fields) < MaxFields
    /\ IF primary_key_given(decl.kwargs)
       THEN /\ fields' = Append(fields, Field__init__(decl.cls, decl.args, AutoFieldKwargs(decl.kwargs)))
            /\ last' = Call("__init__", OK, Len(fields) + 1, "")
       ELSE /\ fields' = fields
            /\ last' = Call("__init__", AssertionError, 0, "")
    /\ UNCHANGED <<decl, meta, warnings>>

\* contribute_to_class without its assertion
may_contribute_always(options) == TRUE

\* the assertion of SalesforceAutoField.contribute_to_class
may_contribute(options) == ~options.has_auto_field

\* Field.contribute_to_class registers the field with cls._meta (Options.add_field);
\* then the flag and the field are recorded
contributed(options, i) ==
    [local_fields |-> Append(options.local_fields, i),
     has_auto_field |-> TRUE,
     auto_field |-> Some(i)]

contribute_to_class(i, m) ==
    /\ fields[i].cls = "SalesforceAutoField"
    /\ IF may_contribute(meta[m])
       THEN /\ meta' = [meta EXCEPT ![m] = contributed(meta[m], i)]
            /\ last' = Call("contribute_to_class", OK, i, m)
       ELSE /\ meta' = meta
            /\ last' = Call("contribute_to_class", AssertionError, i, m)
    /\ UNCHANGED <<decl, fields, warnings>>

-----------------------------------------------------------------------------
(* SfField *)

\* a default other than FULL_WRITABLE
sf_read_only_default_read_only(kwargs) == Get(kwargs, "sf_read_only", READ_ONLY)
sf_read_only_option(kwargs) == Get(kwargs, "sf_read_only", 0)
custom_option(kwargs) == Get(kwargs, "custom", FALSE)

SfField__init__(cls, args, kwargs) ==
    [Field__init__(cls, args, Pop(Pop(kwargs, "sf_read_only"), "custom"))
        EXCEPT !.sf_read_only = Some(sf_read_only_option(kwargs)),
               !.sf_custom = Some(custom_option(kwargs))]

ScalarField__init__ ==
    /\ decl.cls \in ScalarClasses
    /\ fields = <<>>
    /\ fields' = Append(fields, SfField__init__(decl.cls, decl.args, decl.kwargs))
    /\ last' = Call("__init__", OK, Len(fields) + 1, "")
    /\ UNCHANGED <<decl, meta, warnings>>

\* Field.get_attname of the host framework: the declared name
Field_get_attname(f) == f.name

\* the host framework's ForeignKey.get_attname: always '_id'
ForeignKey_get_attname_django(f) == f.name \o SUFFIX_id

\* ForeignKey.get_attname
ForeignKey_get_attname(f) ==
    IF islower(f.name) THEN f.name \o SUFFIX_id ELSE f.name \o SUFFIX_Id

get_attname(f) == IF f.cls = "ForeignKey" THEN ForeignKey_get_attname(f) ELSE Field_get_attname(f)

\* the case test dropped: every name title-cased and stripped
base_column_always_titled(name) == replace_underscore(title(name))

\* the base column name of a field without db_column
base_column(name) == IF ~islower(name) THEN name ELSE replace_underscore(title(name))

\* '__c' appended before the base-name transformation
SfField_column_suffix_first(f) ==
    IF ~IsNone(f.db_column)
    THEN Value(f.db_column)
    ELSE IF Value(f.sf_custom) THEN base_column(f.name \o SUFFIX_C) ELSE base_column(f.name)

\* the column computed by SfField.get_attname_column
SfField_column(f) ==
    IF ~IsNone(f.db_column)
    THEN Value(f.db_column)
    ELSE IF Value(f.sf_custom) THEN base_column(f.name) \o SUFFIX_C ELSE base_column(f.name)

SfField_get_attname_column(f) == <<get_attname(f), SfField_column(f)>>

\* 'Id' appended without looking at db_column
ForeignKey_column_ignores_db_column(f) ==
    IF ~Value(f.sf_custom)
    THEN SfField_get_attname_column(f)[2] \o SUFFIX_Id
    ELSE SfField_get_attname_column(f)[2]

\* 'Id' appended without looking at custom
ForeignKey_column_ignores_custom(f) ==
    IF IsNone(f.db_column)
    THEN SfField_get_attname_column(f)[2] \o SUFFIX_Id
    ELSE SfField_get_attname_column(f)[2]

\* the column computed by ForeignKey.get_attname_column
ForeignKey_column(f) ==
    IF IsNone(f.db_column) /\ ~Value(f.sf_custom)
    THEN SfField_get_attname_column(f)[2] \o SUFFIX_Id
    ELSE SfField_get_attname_column(f)[2]

ForeignKey_get_attname_column(f) == <<SfField_get_attname_column(f)[1], ForeignKey_column(f)>>

\* method resolution: ForeignKey overrides SfField
attname_column(f) ==
    IF f.cls = "ForeignKey" THEN ForeignKey_get_attname_column(f) ELSE SfField_get_attname_column(f)

\* Field.set_attributes_from_name: self.attname, self.column = self.get_attname_column()
get_attname_column(i) ==
    /\ fields[i].cls # "SalesforceAutoField"
    /\ fields' = [fields EXCEPT ![i].attname = Some(attname_column(fields[i])[1]),
                                ![i].column = Some(attname_column(fields[i])[2])]
    /\ last' = Call("get_attname_column", OK, i, "")
    /\ UNCHANGED <<decl, meta, warnings>>

-----------------------------------------------------------------------------
(* ForeignKey *)

on_delete_name(kwargs) == Get(kwargs, "on_delete", "CASCADE")
supported(on_delete) == on_delete \in {"PROTECT", "DO_NOTHING"}

\* related_object = args[0] raises IndexError on an empty tuple
has_related_object(args) == Len(args) > 0
Warning(on_delete, related_object) == [on_delete |-> on_delete, related |-> related_object]

ForeignKey__init__ ==
    /\ decl.cls = "ForeignKey"
    /\ fields = <<>>
    /\ IF ~supported(on_delete_name(decl.kwargs)) /\ ~has_related_object(decl.args)
       THEN /\ last' = Call("__init__", IndexError, 0, "")
            /\ UNCHANGED <<fields, warnings>>
       ELSE /\ warnings' = IF ~supported(on_delete_name(decl.kwargs))
                           THEN Append(warnings, Warning(on_delete_name(decl.kwargs), decl.args[1]))
                           ELSE warnings
            /\ fields' = Append(fields, SfField__init__(decl.cls, decl.args, decl.kwargs))
            /\ last' = Call("__init__", OK, Len(fields) + 1, "")
    /\ UNCHANGED <<decl, meta>>

-----------------------------------------------------------------------------
(* specification *)

NoOptions == [local_fields |-> <<>>, has_auto_field |-> FALSE, auto_field |-> None]

Init ==
    /\ decl \in Decls
    /\ fields = <<>>
    /\ meta = [m \in Models |-> NoOptions]
    /\ warnings = <<>>
    /\ last = Call("none", OK, 0, "")

Next ==
    \/ SalesforceAutoField__init__
    \/ ScalarField__init__
    \/ ForeignKey__init__
    \/ \E i \in 1..Len(fields) : get_attname_column(i)
    \/ \E i \in 1..Len(fields), m \in Models : contribute_to_class(i, m)

Spec == Init /\ [][Next]_vars

-----------------------------------------------------------------------------
(* vocabulary of the properties, stated over the characters of NameChars   *)
(* without the str methods above                                           *)

IsLetter(c) == c \in {"a", "A"}
Capital(c) == IF c = "a" THEN "A" ELSE c

\* entirely lower-case: some letter, and no capital letter
LowerCaseName(s) == /\ \E i \in 1..Len(s) : s[i] = "a"
                    /\ \A i \in 1..Len(s) : s[i] # "A"

\* the characters of s from position i on: every letter that starts a word
\* capitalised, every underscore dropped
RECURSIVE TitleStripped(_, _)
TitleStripped(s, i) ==
    IF i > Len(s) THEN <<>>
    ELSE IF s[i] = "_" THEN TitleStripped(s, i + 1)
    ELSE IF i = 1 \/ ~IsLetter(s[i - 1]) THEN <<Capital(s[i])>> \o TitleStripped(s, i + 1)
    ELSE <<s[i]>> \o TitleStripped(s, i + 1)

BaseName(s) == IF LowerCaseName(s) THEN TitleStripped(s, 1) ELSE s

EndsWith(s, suffix) ==
    /\ Len(s) >= Len(suffix)
    /\ SubSeq(s, Len(s) - Len(suffix) + 1, Len(s)) = suffix

IsScalar(f) == f.cls \in ScalarClasses
IsRelation(f) == f.cls = "ForeignKey"
\* get_attname_column has been called on the field
Named(f) == ~IsNone(f.column)
NamedFields == {i \in 1..Len(fields) : fields[i].cls # "SalesforceAutoField" /\ Named(fields[i])}

-----------------------------------------------------------------------------
\* C1: a scalar or relation field constructed with an explicit db_column gets
\* exactly that column name, whatever its declared name and custom flag.
C1_ExplicitColumnVerbatim ==
    \A i \in NamedFields :
        ~IsNone(fields[i].db_column) => Value(fields[i].column) = Value(fields[i].db_column)

C1_Witness ==
    \E i \in NamedFields :
        /\ IsRelation(fields[i])
        /\ LowerCaseName(fields[i].name)
        /\ Value(fields[i].sf_custom)
        /\ fields[i].db_column = Some(<<"a", "_", "A">>)
        /\ fields[i].column = Some(<<"a", "_", "A">>)

\* C2: a scalar field without db_column and with custom=False whose declared
\* name is entirely lower-case gets the name in title case with the underscores
\* removed as its column, and the declared name as its attribute name.
C2_LowerCaseTitleCased ==
    \A i \in NamedFields :
        (/\ IsScalar(fields[i])
         /\ IsNone(fields[i].db_column)
         /\ ~Value(fields[i].sf_custom)
         /\ LowerCaseName(fields[i].name))
        => /\ Value(fields[i].column) = TitleStripped(fields[i].name, 1)
           /\ Value(fields[i].attname) = fields[i].name

C2_Witness ==
    \E i \in NamedFields :
        /\ IsScalar(fields[i])
        /\ ~Value(fields[i].sf_custom)
        /\ fields[i].name = <<"a", "_", "a">>
        /\ fields[i].column = Some(<<"A", "A">>)
        /\ fields[i].attname = Some(<<"a", "_", "a">>)

\* C3: a scalar field without db_column and with custom=False whose declared
\* name is not entirely lower-case gets the declared name, underscores
\* included, as its column.
C3_MixedCaseUnchanged ==
    \A i \in NamedFields :
        (/\ IsScalar(fields[i])
         /\ IsNone(fields[i].db_column)
         /\ ~Value(fields[i].sf_custom)
         /\ ~LowerCaseName(fields[i].name))
        => Value(fields[i].column) = fields[i].name

C3_Witness ==
    \E i \in NamedFields :
        /\ IsScalar(fields[i])
        /\ ~Value(fields[i].sf_custom)
        /\ fields[i].name = <<"A", "_", "a">>
        /\ fields[i].column = Some(<<"A", "_", "a">>)

\* C4: a field with custom=True and no db_column gets the base column name
\* (declared name if not lower-case, else title-cased without underscores)
\* followed by one '__c'; the suffix is added after the transformation.
C4_CustomSuffix ==
    \A i \in NamedFields :
        (IsNone(fields[i].db_column) /\ Value(fields[i].sf_custom))
        => Value(fields[i].column) = BaseName(fields[i].name) \o <<"_", "_", "c">>

C4_Witness ==
    \E i \in NamedFields :
        /\ IsScalar(fields[i])
        /\ IsNone(fields[i].db_column)
        /\ Value(fields[i].sf_custom)
        /\ fields[i].name = <<"a", "_", "a">>
        /\ fields[i].column = Some(<<"A", "A", "_", "_", "c">>)

\* the column the base algorithm gives: the override, or the base name with
\* '__c' for a custom field
BaseAlgorithm(f) ==
    IF ~IsNone(f.db_column) THEN Value(f.db_column)
    ELSE IF Value(f.sf_custom) THEN BaseName(f.name) \o <<"_", "_", "c">>
    ELSE BaseName(f.name)

\* C5: the column of a relation field is the base algorithm's column, with 'Id'
\* appended exactly when there is no db_column and custom is False; a custom
\* relation ends in '__c', not in 'Id'.
C5_RelationColumn ==
    \A i \in NamedFields :
        IsRelation(fields[i])
        => /\ Value(fields[i].column) =
                IF IsNone(fields[i].db_column) /\ ~Value(fields[i].sf_custom)
                THEN BaseAlgorithm(fields[i]) \o <<"I", "d">>
                ELSE BaseAlgorithm(fields[i])
           /\ (IsNone(fields[i].db_column) /\ Value(fields[i].sf_custom))
              => /\ EndsWith(Value(fields[i].column), <<"_", "_", "c">>)
                 /\ ~EndsWith(Value(fields[i].column), <<"I", "d">>)

C5_Witness ==
    \E i \in NamedFields :
        /\ IsRelation(fields[i])
        /\ IsNone(fields[i].db_column)
        /\ ~Value(fields[i].sf_custom)
        /\ fields[i].name = <<"a", "a">>
        /\ fields[i].column = Some(<<"A", "a", "I", "d">>)

\* C6: the attribute name of a relation field is the declared name followed
\* by '_id' when the name is entirely lower-case and by 'Id' otherwise,
\* whatever db_column and custom are.
C6_RelationAttname ==
    \A i \in NamedFields :
        IsRelation(fields[i])
        => Value(fields[i].attname) =
                IF LowerCaseName(fields[i].name)
                THEN fields[i].name \o <<"_", "i", "d">>
                ELSE fields[i].name \o <<"I", "d">>

C6_Witness ==
    \E i \in NamedFields :
        /\ IsRelation(fields[i])
        /\ ~IsNone(fields[i].db_column)
        /\ Value(fields[i].sf_custom)
        /\ fields[i].name = <<"A", "a">>
        /\ fields[i].attname = Some(<<"A", "a", "I", "d">>)

-----------------------------------------------------------------------------
IdentifierFields(m) ==
    {k \in 1..Len(meta[m].local_fields) :
        fields[meta[m].local_fields[k]].cls = "SalesforceAutoField"}

\* a model has at most one registered identifier field, and the flag and the
\* registered auto_field say whether it has one
OneIdentifier ==
    \A m \in Models :
        /\ Cardinality(IdentifierFields(m)) <= 1
        /\ meta[m].has_auto_field <=> ~IsNone(meta[m].auto_field)
        /\ meta[m].has_auto_field <=> Cardinality(IdentifierFields(m)) = 1

\* the step is a call of contribute_to_class
Attaches == last'.op = "contribute_to_class"

\* C7: the first attachment of an identifier field to a model class succeeds
\* and marks the class as having a primary-key field; every later attachment
\* to that class fails with an assertion error and leaves has_auto_field and
\* auto_field as they were; a model never has two registered identifier fields.
C7_OneIdentifierPerModel ==
    [][/\ OneIdentifier'
       /\ Attaches =>
            IF ~meta[last'.model].has_auto_field
            THEN /\ last'.outcome = OK
                 /\ meta'[last'.model].has_auto_field
                 /\ meta'[last'.model].auto_field = Some(last'.field)
                 /\ \A m \in Models \ {last'.model} : meta'[m] = meta[m]
            ELSE /\ last'.outcome = AssertionError
                 /\ meta' = meta]_vars

\* a second identifier field has been refused by a model that has one
C7_Witness ==
    /\ last.op = "contribute_to_class"
    /\ last.outcome = AssertionError
    /\ Len(fields) = 2
    /\ meta[last.model].has_auto_field
    /\ meta[last.model].auto_field # Some(last.field)
    /\ Len(meta[last.model].local_fields) = 1

\* C8: constructing a relation field with an on_delete other than PROTECT or
\* DO_NOTHING succeeds, keeps the requested policy and emits exactly one
\* warning naming the policy and the related model, however the related model
\* is passed.
C8_UnsupportedPolicyWarns ==
    (/\ decl.cls = "ForeignKey"
     /\ last.op = "__init__"
     /\ Get(decl.kwargs, "on_delete", "CASCADE") \notin {"PROTECT", "DO_NOTHING"})
    => /\ last.outcome = OK
       /\ Len(fields) = 1
       /\ fields[1].on_delete = Get(decl.kwargs, "on_delete", "CASCADE")
       /\ warnings = <<[on_delete |-> Get(decl.kwargs, "on_delete", "CASCADE"), related |-> "User"]>>

\* the step is a call of the identifier field's constructor
ConstructsIdentifier == decl.cls = "SalesforceAutoField" /\ last'.op = "__init__"

\* C9: constructing an identifier field fails with an assertion error and
\* creates no field unless primary_key=True is passed; with primary_key=True it
\* succeeds and the field has null=False, blank=False and default=None
\* whatever was passed for them.
C9_IdentifierConstruction ==
    [][ConstructsIdentifier =>
            IF decl.kwargs.primary_key = Some("True")
            THEN /\ last'.outcome = OK
                 /\ Len(fields') = Len(fields) + 1
                 /\ SubSeq(fields', 1, Len(fields)) = fields
                 /\ fields'[Len(fields')].cls = "SalesforceAutoField"
                 /\ fields'[Len(fields')].primary_key = "True"
                 /\ fields'[Len(fields')].null = "False"
                 /\ fields'[Len(fields')].blank = "False"
                 /\ fields'[Len(fields')].default = "None"
            ELSE /\ last'.outcome = AssertionError
                 /\ fields' = fields]_vars

C9_Witness ==
    /\ decl.cls = "SalesforceAutoField"
    /\ decl.kwargs.null = Some("True")
    /\ decl.kwargs.blank = Some("True")
    /\ decl.kwargs.default = Some("'x'")
    /\ last.op = "__init__"
    /\ last.outcome = OK
    /\ Len(fields) = 1
    /\ fields[1].null = "False"
    /\ fields[1].blank = "False"
    /\ fields[1].default = "None"

====
